---- MODULE Spec2Model ----
(***************************************************************************)
(* Model of pyvista/core/_validation/check.py: the check_* validation      *)
(* routines.  Every routine is a pure function of its arguments that       *)
(* either returns or raises; it is modelled as an operator that yields an  *)
(* outcome record, and one action per public routine applies it to inputs  *)
(* drawn from bounded sets.                                                *)
(***************************************************************************)
EXTENDS Integers, Sequences, FiniteSets, TLC

VARIABLES fn, args, res

vars == <<fn, args, res>>

(***************************************************************************)
(* Bounds of the input sets.                                               *)
(***************************************************************************)
MaxDim == 3        \* largest dimension of the shapes handed to check_shape
MaxRank == 2       \* largest rank of the shapes handed to check_shape
MaxCands == 2      \* longest list of candidate shapes
MaxLen == 3        \* longest 1-dimensional array or python sequence
MaxSide == 2       \* largest side of a 2-dimensional array with data
MaxCalls == 4      \* nested self-calls of check_ndim counted at most

(***************************************************************************)
(* Numbers.  A number is n + f/2 (f in {0, 1}) or one of the IEEE specials *)
(* inf, -inf, nan; comparisons follow IEEE: any comparison with nan is     *)
(* false.                                                                  *)
(***************************************************************************)
I(n) == [k |-> "fin", n |-> n, f |-> 0]
Half(n) == [k |-> "fin", n |-> n, f |-> 1]
PInf == [k |-> "inf", n |-> 0, f |-> 0]
NInf == [k |-> "ninf", n |-> 0, f |-> 0]
NaN == [k |-> "nan", n |-> 0, f |-> 0]

NumEq(x, y) == x.k # "nan" /\ y.k # "nan" /\ x = y
NumLt(x, y) ==
    /\ x.k # "nan" /\ y.k # "nan"
    /\ \/ x.k = "ninf" /\ y.k # "ninf"
       \/ y.k = "inf" /\ x.k # "inf"
       \/ x.k = "fin" /\ y.k = "fin" /\ (x.n < y.n \/ (x.n = y.n /\ x.f < y.f))
NumLe(x, y) == NumLt(x, y) \/ NumEq(x, y)
NumGt(x, y) == NumLt(y, x)
NumGe(x, y) == NumLe(y, x)
NumFloor(x) == IF x.k = "fin" THEN I(x.n) ELSE x
NumIsFinite(x) == x.k = "fin"

(***************************************************************************)
(* Outcomes.  A call returns (kind "ok", with a value) or raises (kind is  *)
(* the exception class).  msg is the f-string of the raise statement as    *)
(* the sequence of its pieces: literal text, the interpolated name, and    *)
(* "{x}" for every other interpolated expression, whose value is in info.  *)
(***************************************************************************)
Return(v) == [kind |-> "ok", msg |-> <<>>, info |-> <<>>, val |-> v]
None == Return(<<>>)
Raise(kind, msg, info) == [kind |-> kind, msg |-> msg, info |-> info, val |-> <<>>]
Raised(r) == r.kind # "ok"
\* statement sequencing: r2 runs only when r1 returned
Then(r1, r2) == IF Raised(r1) THEN r1 ELSE r2

Min(S) == CHOOSE x \in S : \A y \in S : x <= y

(***************************************************************************)
(* Python objects.  ty is type(obj); v is the value of a number; items are *)
(* the items of a tuple or list.                                           *)
(***************************************************************************)
PyInt(n) == [ty |-> "int", v |-> I(n), items |-> <<>>]
PyBool(b) == [ty |-> "bool", v |-> I(IF b THEN 1 ELSE 0), items |-> <<>>]
PyFloat(x) == [ty |-> "float", v |-> x, items |-> <<>>]
PyStr == [ty |-> "str", v |-> I(0), items |-> <<>>]
PyNone == [ty |-> "NoneType", v |-> I(0), items |-> <<>>]
PyTuple(s) == [ty |-> "tuple", v |-> I(0), items |-> s]
PyList(s) == [ty |-> "list", v |-> I(0), items |-> s]

\* the classes type(obj) derives from or is registered with (its ABCs)
Ancestors(ty) ==
    CASE ty = "bool" -> {"bool", "int", "Number", "object"}
      [] ty = "int" -> {"int", "Number", "object"}
      [] ty = "float" -> {"float", "Number", "object"}
      [] ty = "str" -> {"str", "Sequence", "Iterable", "object"}
      [] ty = "tuple" -> {"tuple", "Sequence", "Iterable", "object"}
      [] ty = "list" -> {"list", "Sequence", "Iterable", "object"}
      [] OTHER -> {ty, "object"}

IsNumberObj(o) == "Number" \in Ancestors(o.ty)

\* python ==: numbers compare by value across int, bool and float; tuples
\* compare with tuples and lists with lists, item by item
RECURSIVE PyEq(_, _)
PyEq(a, b) ==
    IF IsNumberObj(a) /\ IsNumberObj(b) THEN NumEq(a.v, b.v)
    ELSE IF a.ty \in {"tuple", "list"} /\ a.ty = b.ty
    THEN /\ Len(a.items) = Len(b.items)
         /\ \A i \in 1..Len(a.items) : PyEq(a.items[i], b.items[i])
    ELSE a = b

\* isinstance(obj, cls) for one class
IsInstance1(o, cls) == cls \in Ancestors(o.ty)

(***************************************************************************)
(* Names.  The name argument is any object; s holds the pieces of the      *)
(* string when it is one (a caller's label is a single piece).             *)
(***************************************************************************)
Name(str) == [isstr |-> TRUE, s |-> <<str>>]
NotAString == [isstr |-> FALSE, s |-> <<"{name}">>]
\* f'All items of {name}'
ItemsName(name) == [isstr |-> TRUE, s |-> <<"All items of ">> \o name.s]

(***************************************************************************)
(* classinfo: a type, a tuple of types or a typing.Union of types.         *)
(***************************************************************************)
Type(c) == [form |-> "type", types |-> <<c>>]
TupleOf(cs) == [form |-> "tuple", types |-> cs]
UnionOf(cs) == [form |-> "Union", types |-> cs]

\* get_origin(classinfo) is Union  =>  classinfo = get_args(classinfo)
Unwrap(classinfo) ==
    IF classinfo.form = "Union" THEN TupleOf(classinfo.types) ELSE classinfo

\* isinstance(obj, classinfo), classinfo a type or a tuple of types
IsInstance(o, classinfo) == \E i \in 1..Len(classinfo.types) : IsInstance1(o, classinfo.types[i])

\* a variant of the exact-type test that also takes instances of subclasses
TypeIsOneOfLoose(o, classinfo) == IsInstance(o, classinfo)

\* type(obj) in classinfo (tuple)  /  type(obj) is classinfo (type)
TypeIsOneOf(o, classinfo) == \E i \in 1..Len(classinfo.types) : o.ty = classinfo.types[i]

\* a variant of check_instance that looks at the name only when it builds
\* the message of a rejection
check_instance_name_last(obj, classinfo0, allow_subclass, name) ==
    IF allow_subclass /\ IsInstance(obj, Unwrap(classinfo0)) THEN None
    ELSE IF ~allow_subclass /\ TypeIsOneOf(obj, Unwrap(classinfo0)) THEN None
    ELSE IF ~name.isstr
    THEN Raise("TypeError", <<"Name must be a string, got ", "{type(name)}", " instead.">>,
               <<>>)
    ELSE Raise("TypeError", name.s \o <<" ", "must be an instance of", " ">>, <<>>)

\* check_instance, lines 908-943
check_instance(obj, classinfo0, allow_subclass, name) ==
    IF ~name.isstr
    THEN Raise("TypeError", <<"Name must be a string, got ", "{type(name)}", " instead.">>,
               <<>>)
    ELSE
    LET classinfo == Unwrap(classinfo0)
        num_classes == IF classinfo.form = "tuple" THEN Len(classinfo.types) ELSE 1
        is_instance == IsInstance(obj, classinfo)
        body ==
            IF allow_subclass /\ ~is_instance
            THEN IF num_classes = 1 THEN "must be an instance of"
                 ELSE "must be an instance of any type"
            ELSE IF ~allow_subclass
            THEN IF classinfo.form = "tuple"
                 THEN IF ~TypeIsOneOf(obj, classinfo)
                      THEN "must have one of the following types" ELSE ""
                 ELSE IF ~TypeIsOneOf(obj, classinfo) THEN "must have type" ELSE ""
            ELSE ""
        is_error == body # ""
    IN  IF is_error
        THEN Raise("TypeError",
                   name.s \o <<" ", body, " ", "{classinfo}", ". Got ", "{type(obj)}",
                               " instead.">>,
                   [classinfo |-> classinfo, type |-> obj.ty])
        ELSE None

\* check_type, line 985
check_type(obj, classinfo, name) == check_instance(obj, classinfo, FALSE, name)

\* check_number, line 747
check_number(num, name) == check_instance(num, Type("Number"), TRUE, name)

\* check_string, line 785
check_string(obj, allow_subclass, name) == check_instance(obj, Type("str"), allow_subclass, name)

\* check_sequence, line 819
check_sequence(obj, name) == check_instance(obj, Type("Sequence"), TRUE, name)

\* check_iterable, line 854
check_iterable(obj, name) == check_instance(obj, Type("Iterable"), TRUE, name)

\* iter(obj): the items of a tuple or list; a str (the one-character "a")
\* yields itself
IterItems(o) == IF o.ty = "str" THEN <<o>> ELSE o.items

\* a variant of check_iterable_items whose traversal ends at the first item
\* that passes
check_iterable_items_to_first_pass(iterable_obj, item_type, allow_subclass, name) ==
    Then(check_iterable(iterable_obj, name),
         IF IterItems(iterable_obj) = <<>> THEN None
         ELSE check_instance(IterItems(iterable_obj)[1], item_type, allow_subclass,
                             ItemsName(name)))

\* check_iterable_items, lines 1039-1048: any() over a generator of
\* check_instance calls, which all return None, so it runs to the end unless
\* one of them raises
check_iterable_items(iterable_obj, item_type, allow_subclass, name) ==
    Then(check_iterable(iterable_obj, name),
         LET items == IterItems(iterable_obj)
             r(i) == check_instance(items[i], item_type, allow_subclass, ItemsName(name))
             bad == {i \in 1..Len(items) : Raised(r(i))}
         IN  IF bad = {} THEN None ELSE r(Min(bad)))

(***************************************************************************)
(* numpy arrays.  data holds the elements in C (row-major) index order;    *)
(* forder says the memory layout is Fortran-contiguous and not             *)
(* C-contiguous, which is all that ravel(order='A') reads of the layout.   *)
(***************************************************************************)
NdArray(dtype, shape, data) == [dtype |-> dtype, shape |-> shape, data |-> data, forder |-> FALSE]
Scalar(dtype, x) == NdArray(dtype, <<>>, <<x>>)
IsNdArray(x) == "dtype" \in DOMAIN x

RECURSIVE Prod(_)
Prod(s) == IF s = <<>> THEN 1 ELSE Head(s) * Prod(Tail(s))

\* the C-order stride (in elements) of axis k, and the Fortran-order one
StrideC(shape, k) == Prod(SubSeq(shape, k + 1, Len(shape)))
StrideF(shape, k) == Prod(SubSeq(shape, 1, k - 1))
\* the multi-index (0-based coordinates) of the i-th element (0-based)
UnravelC(i, shape) == [k \in 1..Len(shape) |-> (i \div StrideC(shape, k)) % shape[k]]
UnravelF(i, shape) == [k \in 1..Len(shape) |-> (i \div StrideF(shape, k)) % shape[k]]
RECURSIVE Offset(_, _, _)
Offset(idx, shape, k) ==
    IF k > Len(shape) THEN 0 ELSE idx[k] * StrideC(shape, k) + Offset(idx, shape, k + 1)
\* array[idx]
Element(array, idx) == array.data[1 + Offset(idx, array.shape, 1)]

\* the dtype numpy gives a python number, and the common dtype of several
DtypeOf(o) == CASE o.ty = "bool" -> "bool" [] o.ty = "int" -> "int64" [] OTHER -> "float64"
Promote(ds) ==
    IF ds = {} \/ "float64" \in ds THEN "float64"
    ELSE IF "int64" \in ds THEN "int64"
    ELSE IF "uint8" \in ds THEN "uint8" ELSE "bool"

\* _cast_to_numpy for the inputs the checks hand it: an array or numpy scalar
\* stays as it is, a number becomes a
\* 0-dimensional array, a flat sequence of numbers a 1-dimensional one (an
\* empty one is float64), a sequence of equally long flat sequences a
\* 2-dimensional one
RECURSIVE Flatten(_)
Flatten(rows) == IF rows = <<>> THEN <<>> ELSE Head(rows).items \o Flatten(Tail(rows))
_cast_to_numpy(o) ==
    IF IsNdArray(o) THEN o
    ELSE IF IsNumberObj(o) THEN Scalar(DtypeOf(o), o.v)
    ELSE IF (\A i \in 1..Len(o.items) : IsNumberObj(o.items[i]))
    THEN NdArray(Promote({DtypeOf(o.items[i]) : i \in 1..Len(o.items)}),
                 <<Len(o.items)>>, [i \in 1..Len(o.items) |-> o.items[i].v])
    ELSE LET flat == Flatten(o.items)
         IN  NdArray(Promote({DtypeOf(flat[i]) : i \in 1..Len(flat)}),
                     <<Len(o.items), Len(o.items[1].items)>>,
                     [i \in 1..Len(flat) |-> flat[i].v])

\* array if isinstance(array, np.ndarray) else _cast_to_numpy(array)
AsArray(x) == IF IsNdArray(x) THEN x ELSE _cast_to_numpy(x)

\* np.shape(x)
NpShape(x) == AsArray(x).shape

\* np.all(a OP v) for an array against a scalar
Cmp(op, a, b) ==
    CASE op = "<"  -> NumLt(a, b)
      [] op = "<=" -> NumLe(a, b)
      [] op = ">"  -> NumGt(a, b)
      [] op = ">=" -> NumGe(a, b)
AllCmp(array, op, v) == \A i \in 1..Len(array.data) : Cmp(op, array.data[i], v)

\* np.issubdtype(dtype, base)
IsSubdtype(dtype, base) ==
    \/ dtype = base
    \/ base = "integer" /\ dtype \in {"int64", "uint8"}
    \/ base = "floating" /\ dtype = "float64"

(***************************************************************************)
(* dtype and value checks                                                  *)
(***************************************************************************)
\* base_dtype: one dtype or a tuple / list of dtypes
OneDtype(d) == [form |-> "dtype", ds |-> <<d>>]
DtypeSeq(ds) == [form |-> "tuple", ds |-> ds]

\* check_subdtype, lines 96-112 (the input is an array: np.dtype(array)
\* raises TypeError and the array's dtype is used)
check_subdtype(input_obj, base_dtype, name) ==
    LET input_dtype == AsArray(input_obj).dtype
        bases == base_dtype.ds
    IN  IF ~(\E i \in 1..Len(bases) : IsSubdtype(input_dtype, bases[i]))
        THEN Raise("TypeError",
                   name.s \o <<" has incorrect dtype of '", "{input_dtype.name}", "'. ">>
                   \o (IF Len(bases) = 1
                       THEN <<"The dtype must be a subtype of ", "{base_dtype[0]}", ".">>
                       ELSE <<"The dtype must be a subtype of at least one of \n",
                              "{base_dtype}", ".">>),
                   [dtype |-> input_dtype])
        ELSE None

\* check_real, lines 155-167
check_real(array0, name) ==
    LET array == AsArray(array0)
    IN  IF array.dtype \in {"int32", "int64", "float32", "float64"} THEN None
        ELSE IF Raised(check_subdtype(array, DtypeSeq(<<"floating", "integer">>), name))
        THEN Raise("TypeError", name.s \o <<" must have real numbers.">>, <<>>)
        ELSE None

\* a variant of check_finite that accepts every array
check_finite_any(array0, name) == None

\* check_finite, lines 304-307
check_finite(array0, name) ==
    LET array == AsArray(array0)
    IN  IF ~(\A i \in 1..Len(array.data) : NumIsFinite(array.data[i]))
        THEN Raise("ValueError", name.s \o <<" must have finite values.">>, <<>>)
        ELSE None

\* a variant that accepts every array
EqualsFloorAlways(array) == TRUE

\* np.array_equal(array, np.floor(array))
EqualsFloor(array) ==
    \A i \in 1..Len(array.data) : NumEq(array.data[i], NumFloor(array.data[i]))

\* a variant of check_integer whose strict mode accepts every real dtype
check_integer_real(array0, strict, name) ==
    LET array == AsArray(array0)
    IN  IF strict THEN check_real(array, Name("Input"))
        ELSE IF ~EqualsFloor(array)
        THEN Raise("ValueError", name.s \o <<" must have integer-like values.">>, <<>>)
        ELSE None

\* check_integer, lines 353-358
check_integer(array0, strict, name) ==
    LET array == AsArray(array0)
    IN  IF strict THEN check_subdtype(array, OneDtype("integer"), Name("Input"))
        ELSE IF ~EqualsFloor(array)
        THEN Raise("ValueError", name.s \o <<" must have integer-like values.">>, <<>>)
        ELSE None

RECURSIVE check_shape(_, _, _)

\* _validate_real_value, lines 394-397
_validate_real_value(scalar, name) ==
    LET valid_scalar == _cast_to_numpy(scalar)
    IN  Then(check_shape(valid_scalar, PyTuple(<<>>), name),
        Then(check_real(valid_scalar, name),
             Return(valid_scalar)))

\* check_greater_than, lines 445-452
check_greater_than(array0, value, strict, name) ==
    LET compare(array, valid_value) ==
            IF Raised(valid_value) THEN valid_value
            ELSE IF strict /\ ~AllCmp(array, ">", valid_value.val.data[1])
            THEN Raise("ValueError",
                       name.s \o <<" values must all be greater than ", "{value}", ".">>, <<>>)
            ELSE IF ~AllCmp(array, ">=", valid_value.val.data[1])
            THEN Raise("ValueError",
                       name.s \o <<" values must all be greater than or equal to ", "{value}",
                                   ".">>, <<>>)
            ELSE None
    IN  compare(AsArray(array0), _validate_real_value(value, Name("Value")))

\* check_less_than, lines 501-508
check_less_than(array0, value, strict, name) ==
    LET compare(array, valid_value) ==
            IF Raised(valid_value) THEN valid_value
            ELSE IF strict /\ ~AllCmp(array, "<", valid_value.val.data[1])
            THEN Raise("ValueError",
                       name.s \o <<" values must all be less than ", "{value}", ".">>, <<>>)
            ELSE IF ~AllCmp(array, "<=", valid_value.val.data[1])
            THEN Raise("ValueError",
                       name.s \o <<" values must all be less than or equal to ", "{value}",
                                   ".">>, <<>>)
            ELSE None
    IN  compare(AsArray(array0), _validate_real_value(value, Name("Value")))

\* check_nonnegative, line 390
check_nonnegative(array, name) == check_greater_than(array, PyInt(0), FALSE, name)

(***************************************************************************)
(* shapes                                                                  *)
(***************************************************************************)
\* the common inputs of line 1211
CommonShapes ==
    <<PyTuple(<<>>), PyTuple(<<PyInt(-1)>>), PyTuple(<<PyInt(1)>>), PyTuple(<<PyInt(3)>>),
      PyTuple(<<PyInt(2)>>), PyTuple(<<PyInt(1), PyInt(3)>>),
      PyTuple(<<PyInt(-1), PyInt(3)>>)>>

\* _is_valid_dim, line 1215
_is_valid_dim(d) == IsInstance1(d, "int") /\ NumGe(d.v, I(-1))

\* shape in [(), (-1,), ...], line 1211: membership by ==
InCommonShapes(shape) == \E i \in 1..Len(CommonShapes) : PyEq(shape, CommonShapes[i])

\* _validate_shape_value past the early return, lines 1214-1231
ValidateShapeGeneral(shape) ==
    IF _is_valid_dim(shape) THEN Return(PyTuple(<<shape>>))
    ELSE IF IsInstance1(shape, "tuple") /\ (\A i \in 1..Len(shape.items) : _is_valid_dim(shape.items[i]))
    THEN Return(shape)
    ELSE Then(check_instance(shape, TupleOf(<<"int", "tuple">>), TRUE, Name("Shape")),
         Then(IF IsInstance1(shape, "int") THEN None
              ELSE check_iterable_items(shape, Type("int"), TRUE, Name("Shape")),
         Then(check_greater_than(IF IsInstance1(shape, "int") THEN PyTuple(<<shape>>)
                                 ELSE shape,
                                 PyInt(-1), FALSE, Name("Shape")),
              Raise("RuntimeError", <<"This line should not be reachable.">>, <<>>))))

\* _validate_shape_value, lines 1203-1231
_validate_shape_value(shape) ==
    IF shape.ty = "NoneType"
    THEN Raise("TypeError", <<"None is not a valid shape. Use () instead.">>, <<>>)
    ELSE IF InCommonShapes(shape) THEN Return(shape)
    ELSE ValidateShapeGeneral(shape)

\* a variant of the match that forgets the wildcard
ShapeIsAllowedNoWildcard(a, b) ==
    /\ Len(a) = Len(b.items)
    /\ \A k \in 1..Len(a) : PyEq(PyInt(a[k]), b.items[k])

\* _shape_is_allowed, lines 626-629: a is the array's shape, b the allowed one
_shape_is_allowed(a, b) ==
    /\ Len(a) = Len(b.items)
    /\ \A k \in 1..Len(a) :
          IF PyEq(PyInt(a[k]), b.items[k]) THEN TRUE ELSE PyEq(b.items[k], PyInt(-1))

\* check_shape, lines 631-645
check_shape(array, shape0, name) ==
    LET shape == IF shape0.ty = "list" THEN shape0.items ELSE <<shape0>>
        array_shape == NpShape(array)
        \* one iteration of the for loop: it raises, returns, or goes on
        iteration(valid_shape) ==
            IF Raised(valid_shape) THEN valid_shape
            ELSE IF _shape_is_allowed(array_shape, valid_shape.val) THEN None
            ELSE [kind |-> "continue"]
        outcome == [i \in 1..Len(shape) |-> iteration(_validate_shape_value(shape[i]))]
        \* the iterations of the for loop that leave it
        stop == {i \in 1..Len(shape) : outcome[i].kind # "continue"}
    IN  IF stop # {}
        THEN outcome[Min(stop)]
        ELSE Raise("ValueError",
                   name.s \o <<" has shape ", "{array_shape}", " which is not allowed. ">>
                   \o (IF Len(shape) = 1 THEN <<"Shape must be ", "{shape[0]}", ".">>
                       ELSE <<"Shape must be one of ", "{shape}", ".">>),
                   [array_shape |-> array_shape])

(***************************************************************************)
(* sortedness and ranges                                                   *)
(***************************************************************************)
Max0(n) == IF n < 0 THEN 0 ELSE n

\* array.ravel(order='A'), line 241
Ravel(array) ==
    LET size == Len(array.data)
    IN  NdArray(array.dtype, <<size>>,
                [j \in 1..size |->
                    IF array.forder THEN Element(array, UnravelF(j - 1, array.shape))
                    ELSE array.data[j]])

\* a variant of the view that drops the last two items instead of the last one
SliceViewShort(array, k, start) ==
    LET shape == [array.shape EXCEPT ![k] = Max0(@ - 2)]
    IN  NdArray(array.dtype, shape,
                [j \in 1..Prod(shape) |->
                    Element(array, [UnravelC(j - 1, shape) EXCEPT ![k] = @ + start])])

\* array[..., start : start + n - 1, ...] along axis k (1-based), n the
\* size of that axis: the view slice(None, -1) for start = 0 and
\* slice(1, None) for start = 1
SliceView(array, k, start) ==
    LET shape == [array.shape EXCEPT ![k] = Max0(@ - 1)]
    IN  NdArray(array.dtype, shape,
                [j \in 1..Prod(shape) |->
                    Element(array, [UnravelC(j - 1, shape) EXCEPT ![k] = @ + start])])

\* np.all(first_item OP second_item), lines 255-262
AllPairs(first_item, second_item, op) ==
    \A j \in 1..Len(first_item.data) : Cmp(op, first_item.data[j], second_item.data[j])

RECURSIVE check_sorted(_, _, _, _, _)

\* a variant of check_range that hands each bound the other bound's strictness
check_range_swapped(array0, rng0, strict_lower, strict_upper, name) ==
    LET rng == AsArray(rng0)
        array == AsArray(array0)
    IN  Then(check_shape(rng, PyInt(2), Name("Range")),
        Then(check_sorted(rng, TRUE, FALSE, PyInt(-1), Name("Range")),
        Then(check_greater_than(array, Scalar(rng.dtype, rng.data[1]), strict_upper, name),
             check_less_than(array, Scalar(rng.dtype, rng.data[2]), strict_lower, name))))

\* check_range, lines 564-570
check_range(array0, rng0, strict_lower, strict_upper, name) ==
    LET rng == AsArray(rng0)
        array == AsArray(array0)
    IN  Then(check_shape(rng, PyInt(2), Name("Range")),
        Then(check_sorted(rng, TRUE, FALSE, PyInt(-1), Name("Range")),
        Then(check_greater_than(array, Scalar(rng.dtype, rng.data[1]), strict_lower, name),
             check_less_than(array, Scalar(rng.dtype, rng.data[2]), strict_upper, name))))

\* lines 229-237: the validation of axis; returns the axis to use
ValidateAxis(axis, ndim) ==
    IF PyEq(axis, PyInt(-1)) \/ axis.ty = "NoneType" THEN Return(axis)
    ELSE
    Then(check_number(axis, Name("Axis")),
    Then(check_integer(axis, FALSE, Name("Axis")),
         \* axis = int(axis)
         IF axis.v.k # "fin"
         THEN Raise("OverflowError", <<"cannot convert float infinity to integer">>, <<>>)
         ELSE LET axis_int == PyInt(axis.v.n)
                  \* try: ... except ValueError: raise ValueError(...)
                  try(r) ==
                      IF r.kind = "ValueError"
                      THEN Raise("ValueError",
                                 <<"Axis ", "{axis}", " is out of bounds for ndim ", "{ndim}",
                                   ".">>, <<>>)
                      ELSE Then(r, Return(axis_int))
              IN  try(check_range(axis_int, PyList(<<PyInt(-ndim), PyInt(ndim - 1)>>),
                                  FALSE, FALSE, Name("Axis")))))

\* check_sorted, lines 221-273
check_sorted(array0, ascending, strict, axis0, name) ==
    LET \* lines 255-273: the comparison of the two views
        compare(first_item, second_item) ==
            IF ~AllPairs(first_item, second_item,
                         IF ascending /\ ~strict THEN "<="
                         ELSE IF ascending /\ strict THEN "<"
                         ELSE IF ~ascending /\ ~strict THEN ">="
                         ELSE ">")
            THEN Raise("ValueError",
                       name.s \o <<" ", "with ", "{array.size}", " elements",
                                   " must be sorted in ",
                                   IF strict THEN "strict " ELSE "",
                                   IF ascending THEN "ascending" ELSE "descending",
                                   " order. ", "Got:\n    ", "{reprlib.repr(array)}">>,
                       <<>>)
            ELSE None
        \* lines 245-253: the two views along axis (k is the axis from 1,
        \* a negative axis counting from the last)
        slices(array, k) == compare(SliceView(array, k, 0), SliceView(array, k, 1))
        \* lines 239-253, axis validated
        sorted(array1, axis) ==
            IF axis.ty = "NoneType" THEN slices(Ravel(array1), 1)
            \* first_slice[axis] = ...: a list is indexed with an int
            ELSE IF ~IsInstance1(axis, "int")
            THEN Raise("TypeError",
                       <<"list indices must be integers or slices, not float">>, <<>>)
            ELSE slices(array1, (axis.v.n % Len(array1.shape)) + 1)
        validated(array1, valid) == IF Raised(valid) THEN valid ELSE sorted(array1, valid.val)
        body(array1) ==
            IF Len(array1.shape) = 0 THEN None
            ELSE validated(array1, ValidateAxis(axis0, Len(array1.shape)))
    IN  body(AsArray(array0))

(***************************************************************************)
(* dimensions, lengths and containers                                      *)
(***************************************************************************)
\* np.atleast_1d(x)
AtLeast1d(x) ==
    LET a == AsArray(x)
    IN  IF a.shape = <<>> THEN NdArray(a.dtype, <<1>>, a.data) ELSE a

\* a variant of the membership test that reads the last entry only
InArrayLast(n, a) == Len(a.data) >= 1 /\ NumEq(a.data[Len(a.data)], I(n))

\* value in array: (array == value).any()
InArray(n, a) == \E i \in 1..Len(a.data) : NumEq(a.data[i], I(n))

\* array[0] of an array of rank >= 1 with at least one item
FirstItem(a) ==
    NdArray(a.dtype, Tail(a.shape), SubSeq(a.data, 1, Prod(Tail(a.shape))))

\* a variant of the nesting in which the self-call allows rank 0 only
RECURSIVE CallsAllowingRank0(_, _, _)
CallsAllowingRank0(array, ndim, made) ==
    IF ~InArray(Len(_cast_to_numpy(array).shape), AtLeast1d(ndim)) /\ made < MaxCalls
    THEN CallsAllowingRank0(ndim, PyList(<<PyInt(0)>>), made + 1)
    ELSE made

\* the nesting of the self-calls of check_ndim, lines 697-701: the number of
\* nested self-calls a call makes (counted up to MaxCalls), made of them
\* being made already
RECURSIVE SelfCalls(_, _, _)
SelfCalls(array, ndim, made) ==
    IF ~InArray(Len(_cast_to_numpy(array).shape), AtLeast1d(ndim)) /\ made < MaxCalls
    THEN SelfCalls(ndim, PyList(<<PyInt(0), PyInt(1)>>), made + 1)
    ELSE made

RECURSIVE check_ndim(_, _, _)
\* check_ndim, lines 697-713
check_ndim(array, ndim, name) ==
    LET ndim_ == AtLeast1d(ndim)
        array_ndim == Len(_cast_to_numpy(array).shape)
    IN  IF ~InArray(array_ndim, ndim_)
        THEN Then(check_ndim(ndim, PyList(<<PyInt(0), PyInt(1)>>), Name("ndim")),
             Then(IF ndim_.shape[1] = 1
                  THEN check_integer(FirstItem(ndim_), TRUE, Name("ndim"))
                  ELSE check_integer(ndim, TRUE, Name("ndim")),
                  Raise("ValueError",
                        name.s \o <<" has the incorrect number of dimensions. ", "Got ",
                                    "{array_ndim}", ", expected ",
                                    IF ndim_.shape[1] = 1 THEN "" ELSE "one of ", "{ndim}",
                                    ".">>,
                        [array_ndim |-> array_ndim])))
        ELSE None

\* a variant of the lower-bound test that is exclusive
BelowMinStrict(array_len, min_length) == NumLe(I(array_len), min_length.v)

\* array_len < min_length, line 1193
BelowMin(array_len, min_length) == NumLt(I(array_len), min_length.v)

\* check_length, lines 1165-1198
check_length(sized_input0, exact_length, min_length, max_length, must_be_1d, allow_scalar, name) ==
    LET sized_input ==
            IF allow_scalar
            THEN IF IsNdArray(sized_input0) /\ sized_input0.shape = <<>>
                 THEN PyList(<<IF sized_input0.dtype = "float64"
                                THEN PyFloat(sized_input0.data[1])
                                ELSE PyInt(sized_input0.data[1].n)>>)
                 ELSE IF ~IsNdArray(sized_input0) /\ sized_input0.ty \in {"float", "int", "bool"}
                 THEN PyList(<<sized_input0>>)
                 ELSE sized_input0
            ELSE sized_input0
        sized == IF IsNdArray(sized_input) THEN sized_input.shape # <<>>
                 ELSE sized_input.ty \in {"list", "tuple", "str"}
        array_len == IF IsNdArray(sized_input) THEN sized_input.shape[1]
                     ELSE Len(IterItems(sized_input))
        has_exact == exact_length.ty # "NoneType"
        has_min == min_length.ty # "NoneType"
        has_max == max_length.ty # "NoneType"
    IN  Then(IF must_be_1d THEN check_shape(sized_input, PyInt(-1), Name("Array")) ELSE None,
        Then(IF ~sized
             THEN Raise("TypeError", <<"object of type ", "{type}", " has no len()">>, <<>>)
             ELSE None,
        Then(IF has_exact
             THEN Then(check_integer(exact_length, FALSE, Name("'exact_length'")),
                       IF ~InArray(array_len, AtLeast1d(exact_length))
                       THEN Raise("ValueError",
                                  name.s \o <<" must have a length equal to any of: ",
                                              "{exact_length}", ". ", "Got length ",
                                              "{array_len}", " instead.">>,
                                  [constraint |-> exact_length, array_len |-> array_len])
                       ELSE None)
             ELSE None,
        Then(IF has_min THEN check_finite(min_length, Name("Min length")) ELSE None,
        Then(IF has_max THEN check_finite(max_length, Name("Max length")) ELSE None,
        Then(IF has_min /\ has_max
             THEN check_sorted(PyTuple(<<min_length, max_length>>), TRUE, FALSE, PyInt(-1),
                               Name("Range"))
             ELSE None,
        Then(IF has_min /\ BelowMin(array_len, min_length)
             THEN Raise("ValueError",
                        name.s \o <<" must have a minimum length of ", "{min_length}",
                                    ". Got length ", "{array_len}", " instead.">>,
                        [constraint |-> min_length, array_len |-> array_len])
             ELSE None,
             IF has_max /\ NumGt(I(array_len), max_length.v)
             THEN Raise("ValueError",
                        name.s \o <<" must have a maximum length of ", "{max_length}",
                                    ". Got length ", "{array_len}", " instead.">>,
                        [constraint |-> max_length, array_len |-> array_len])
             ELSE None)))))))

\* must_contain in container: by == over the items of a list, tuple or set;
\* a str takes only a str on the left (substring test) and any other object
\* has no membership test
Contains(container, must_contain) ==
    IF container.ty = "str" THEN TRUE
    ELSE (\E i \in 1..Len(container.items) : PyEq(must_contain, container.items[i]))

\* check_contains, lines 1085-1088
check_contains(container, must_contain, name) ==
    IF ~(container.ty \in {"list", "tuple", "str", "set"})
    THEN Raise("TypeError", <<"argument of type ", "{type}", " is not iterable">>, <<>>)
    ELSE IF container.ty = "str" /\ must_contain.ty # "str"
    THEN Raise("TypeError",
               <<"'in <string>' requires string as left operand, not ", "{type}">>, <<>>)
    ELSE IF ~Contains(container, must_contain)
    THEN Raise("ValueError",
               name.s \o <<" '", "{must_contain}", "' is not valid. ">> \o name.s
                      \o <<" must be ",
                           IF container.ty \in {"list", "tuple"} THEN "one of" ELSE "in",
                           ": \n\t", "{container}">>, <<>>)
    ELSE None

(***************************************************************************)
(* Inputs                                                                  *)
(***************************************************************************)
SeqsUpTo(S, n) == UNION {[1..k -> S] : k \in 0..n}

CallerNames == {Name("foo"), Name("Array")}

\* shapes of arrays, and an array of each shape
ArrayShapes == SeqsUpTo(0..MaxDim, MaxRank)
Zeros(shape) == NdArray("int64", shape, [i \in 1..Prod(shape) |-> I(0)])

\* the dimension entries of candidate shapes: valid ones, one below -1, and
\* entries that are no integers
DimItems == {PyInt(d) : d \in -2..MaxDim} \cup {PyFloat(I(1)), PyStr}
ShapeCands ==
    {PyTuple(t) : t \in SeqsUpTo(DimItems, MaxRank)}
    \cup {PyInt(d) : d \in -2..MaxDim}
    \cup {PyNone, PyFloat(I(2)), PyStr, PyBool(TRUE)}
\* the candidates that appear in lists of candidates
ListCands ==
    {PyInt(-1), PyInt(2), PyTuple(<<>>), PyTuple(<<PyInt(-1), PyInt(3)>>),
     PyTuple(<<PyInt(2), PyInt(-1)>>), PyTuple(<<PyInt(1), PyInt(2)>>),
     PyNone, PyTuple(<<PyInt(-2)>>), PyTuple(<<PyStr>>)}
ShapeArgs == ShapeCands \cup {PyList(l) : l \in SeqsUpTo(ListCands, MaxCands)}

\* arrays with data: 0-, 1- and 2-dimensional
Vals1 == {I(0), I(1), NaN}
Vals2 == {I(0), I(1)}
Arrays0 == {Scalar("float64", x) : x \in Vals1}
Arrays1 == {NdArray("float64", <<Len(d)>>, d) : d \in SeqsUpTo(Vals1, MaxLen)}
Arrays2C ==
    UNION {{NdArray("int64", <<r, c>>, d) : d \in [1..(r * c) -> Vals2]} :
           r \in 1..MaxSide, c \in 1..2}
\* the same arrays in Fortran memory layout, where the layouts differ
Arrays2F == {[a EXCEPT !.forder = TRUE] : a \in {b \in Arrays2C : b.shape[1] > 1 /\ b.shape[2] > 1}}
Arrays2 == Arrays2C \cup Arrays2F
SortArrays == Arrays0 \cup Arrays1 \cup Arrays2

AxisArgs ==
    {PyNone, PyBool(TRUE), PyStr, PyFloat(I(1)), PyFloat(I(-1)), PyFloat(Half(0)),
     PyFloat(PInf), PyFloat(NaN)}
    \cup {PyInt(a) : a \in -3..2}

\* arrays of each dtype for the value and dtype checks
ValsOf(dtype) ==
    CASE dtype = "int64" -> {I(-1), I(0), I(1)}
      [] dtype = "float64" -> {I(0), Half(0), PInf, NaN}
      [] dtype = "uint8" -> {I(0), I(2)}
      [] dtype = "bool" -> {I(0), I(1)}
Dtypes == {"int64", "float64", "uint8", "bool"}
NumArrays ==
    UNION {{Scalar(dt, x) : x \in ValsOf(dt)}
           \cup {NdArray(dt, <<Len(d)>>, d) : d \in SeqsUpTo(ValsOf(dt), MaxLen - 1)} :
           dt \in Dtypes}

\* python numbers
PyNums ==
    {PyInt(0), PyInt(1), PyFloat(Half(0)), PyFloat(PInf), PyFloat(NInf), PyFloat(NaN)}
\* rng arguments: every pair, and ranges that are no pairs
RngArgs ==
    {PyList(<<a, b>>) : a, b \in PyNums}
    \cup {PyInt(1), PyList(<<>>), PyList(<<PyInt(0)>>),
          PyList(<<PyInt(0), PyInt(1), PyInt(1)>>),
          PyList(<<PyList(<<PyInt(0), PyInt(1)>>)>>),
          PyList(<<PyList(<<PyInt(0)>>), PyList(<<PyInt(1)>>)>>)}
\* value arguments of check_greater_than and check_less_than
ValueArgs == PyNums \cup {PyBool(TRUE), PyList(<<PyInt(0)>>)}
BaseDtypes ==
    {OneDtype("integer"), OneDtype("floating"), OneDtype("bool"),
     DtypeSeq(<<"floating", "integer">>), DtypeSeq(<<"integer">>)}

\* ndim arguments
NdimItems == {PyInt(d) : d \in -1..MaxRank} \cup {PyFloat(I(1)), PyFloat(Half(1))}
NdimArgs ==
    NdimItems
    \cup {PyList(l) : l \in SeqsUpTo(NdimItems, 2)}
    \cup {PyList(<<PyList(<<PyInt(1), PyInt(2)>>)>>), PyList(<<PyList(<<PyInt(0)>>)>>)}

\* inputs of check_length
SizedInputs ==
    {PyList([i \in 1..n |-> PyInt(0)]) : n \in 0..MaxLen}
    \cup {PyInt(5), PyFloat(Half(0)), Scalar("int64", I(0)),
          PyList(<<PyList(<<PyInt(0), PyInt(0)>>), PyList(<<PyInt(0), PyInt(0)>>)>>),
          Zeros(<<2>>), Zeros(<<3, 2>>)}
ExactArgs ==
    {PyNone, PyFloat(I(2)), PyFloat(Half(1)), PyList(<<>>), PyList(<<PyInt(1), PyInt(3)>>)}
    \cup {PyInt(n) : n \in 0..MaxLen}
LengthArgs ==
    {PyNone, PyFloat(PInf), PyFloat(NaN), PyFloat(Half(1))} \cup {PyInt(n) : n \in 0..MaxLen}

\* objects and classinfo of the instance checks
Classes == {"int", "bool", "float", "str", "tuple", "NoneType", "Number", "Sequence",
            "Iterable", "object"}
Objs == {PyInt(5), PyBool(TRUE), PyFloat(Half(0)), PyStr, PyNone, PyTuple(<<>>),
         PyList(<<PyInt(1)>>)}
ClassInfos ==
    {Type(c) : c \in Classes}
    \cup {TupleOf(<<c, d>>) : c, d \in Classes}
    \cup {UnionOf(<<x[1], x[2]>>) : x \in {y \in Classes \X Classes : y[1] # y[2]}}
    \cup {TupleOf(<<>>)}
NameArgs == CallerNames \cup {NotAString}
Items == {PyInt(1), PyBool(TRUE), PyFloat(I(1)), PyStr}
Iterables ==
    {PyTuple(t) : t \in SeqsUpTo(Items, MaxLen)}
    \cup {PyList(<<PyInt(1), PyStr>>), PyStr, PyInt(1), PyNone}
ItemTypes == {Type("int"), Type("Number"), TupleOf(<<"int", "str">>), UnionOf(<<"float", "bool">>)}
Containers ==
    {PyList(t) : t \in SeqsUpTo(Items, 2)}
    \cup {PyTuple(<<PyInt(1)>>), PyStr, PyInt(1),
          [ty |-> "set", v |-> I(0), items |-> <<PyInt(1), PyStr>>]}

\* shape values handed to _validate_shape_value: the candidates above, and
\* tuples with entries that equal an int without being one
NearDims == {PyBool(TRUE), PyFloat(I(3)), PyFloat(I(-1)), PyFloat(Half(1)), PyInt(-1), PyInt(3)}
ShapeValues ==
    ShapeCands
    \cup {PyTuple(t) : t \in SeqsUpTo(NearDims, 2)}
    \cup {PyList(<<>>), PyList(<<PyInt(-1)>>), PyList(<<PyInt(1), PyInt(3)>>)}

(***************************************************************************)
(* Actions: one call of a public routine on inputs drawn from the sets     *)
(* above.  The routines keep no state between calls, so a behaviour is one *)
(* call: fn is "none" before it and the routine's name after it.           *)
(***************************************************************************)
Init ==
    /\ fn = "none"
    /\ args = <<>>
    /\ res = None

Call_check_shape ==
    /\ fn = "none"
    /\ \E a \in ArrayShapes, shape \in ShapeArgs :
        /\ fn' = "check_shape"
        /\ args' = [array_shape |-> a, shape |-> shape, name |-> Name("foo")]
        /\ res' = check_shape(Zeros(a), shape, Name("foo"))

Call_check_sorted ==
    /\ fn = "none"
    /\ \E array \in SortArrays, ascending \in BOOLEAN, strict \in BOOLEAN, axis \in AxisArgs :
        /\ fn' = "check_sorted"
        /\ args' = [array |-> array, ascending |-> ascending, strict |-> strict,
                    axis |-> axis, name |-> Name("foo")]
        /\ res' = check_sorted(array, ascending, strict, axis, Name("foo"))

Call_check_subdtype ==
    /\ fn = "none"
    /\ \E input_obj \in NumArrays, base_dtype \in BaseDtypes, name \in CallerNames :
        /\ fn' = "check_subdtype"
        /\ args' = [array |-> input_obj, base_dtype |-> base_dtype, name |-> name]
        /\ res' = check_subdtype(input_obj, base_dtype, name)

Call_check_real ==
    /\ fn = "none"
    /\ \E array \in NumArrays, name \in CallerNames :
        /\ fn' = "check_real"
        /\ args' = [array |-> array, name |-> name]
        /\ res' = check_real(array, name)

Call_check_finite ==
    /\ fn = "none"
    /\ \E array \in NumArrays, name \in CallerNames :
        /\ fn' = "check_finite"
        /\ args' = [array |-> array, name |-> name]
        /\ res' = check_finite(array, name)

Call_check_integer ==
    /\ fn = "none"
    /\ \E array \in NumArrays, strict \in BOOLEAN, name \in CallerNames :
        /\ fn' = "check_integer"
        /\ args' = [array |-> array, strict |-> strict, name |-> name]
        /\ res' = check_integer(array, strict, name)

Call_check_nonnegative ==
    /\ fn = "none"
    /\ \E array \in NumArrays, name \in CallerNames :
        /\ fn' = "check_nonnegative"
        /\ args' = [array |-> array, name |-> name]
        /\ res' = check_nonnegative(array, name)

Call_check_greater_than ==
    /\ fn = "none"
    /\ \E array \in NumArrays, value \in ValueArgs, strict \in BOOLEAN :
        /\ fn' = "check_greater_than"
        /\ args' = [array |-> array, value |-> value, strict |-> strict, name |-> Name("foo")]
        /\ res' = check_greater_than(array, value, strict, Name("foo"))

Call_check_less_than ==
    /\ fn = "none"
    /\ \E array \in NumArrays, value \in ValueArgs, strict \in BOOLEAN :
        /\ fn' = "check_less_than"
        /\ args' = [array |-> array, value |-> value, strict |-> strict, name |-> Name("foo")]
        /\ res' = check_less_than(array, value, strict, Name("foo"))

Call_check_range ==
    /\ fn = "none"
    /\ \E array \in NumArrays, rng \in RngArgs, strict_lower \in BOOLEAN, strict_upper \in BOOLEAN :
        /\ fn' = "check_range"
        /\ args' = [array |-> array, rng |-> rng, strict_lower |-> strict_lower,
                    strict_upper |-> strict_upper, name |-> Name("foo")]
        /\ res' = check_range(array, rng, strict_lower, strict_upper, Name("foo"))

Call_check_ndim ==
    /\ fn = "none"
    /\ \E a \in ArrayShapes, ndim \in NdimArgs :
        /\ fn' = "check_ndim"
        /\ args' = [array_shape |-> a, ndim |-> ndim, name |-> Name("foo")]
        /\ res' = check_ndim(Zeros(a), ndim, Name("foo"))

Call_check_length ==
    /\ fn = "none"
    /\ \E sized_input \in SizedInputs, exact_length \in ExactArgs, min_length \in LengthArgs,
       max_length \in LengthArgs, must_be_1d \in BOOLEAN, allow_scalar \in BOOLEAN :
        /\ fn' = "check_length"
        /\ args' = [sized_input |-> sized_input, exact_length |-> exact_length,
                    min_length |-> min_length, max_length |-> max_length,
                    must_be_1d |-> must_be_1d, allow_scalar |-> allow_scalar,
                    name |-> Name("foo")]
        /\ res' = check_length(sized_input, exact_length, min_length, max_length, must_be_1d,
                               allow_scalar, Name("foo"))

Call_check_instance ==
    /\ fn = "none"
    /\ \E obj \in Objs, classinfo \in ClassInfos, allow_subclass \in BOOLEAN, name \in NameArgs :
        /\ fn' = "check_instance"
        /\ args' = [obj |-> obj, classinfo |-> classinfo, allow_subclass |-> allow_subclass,
                    name |-> name]
        /\ res' = check_instance(obj, classinfo, allow_subclass, name)

Call_check_type ==
    /\ fn = "none"
    /\ \E obj \in Objs, classinfo \in ClassInfos, name \in NameArgs :
        /\ fn' = "check_type"
        /\ args' = [obj |-> obj, classinfo |-> classinfo, name |-> name]
        /\ res' = check_type(obj, classinfo, name)

Call_check_number ==
    /\ fn = "none"
    /\ \E obj \in Objs, name \in NameArgs :
        /\ fn' = "check_number"
        /\ args' = [obj |-> obj, name |-> name]
        /\ res' = check_number(obj, name)

Call_check_string ==
    /\ fn = "none"
    /\ \E obj \in Objs, allow_subclass \in BOOLEAN, name \in NameArgs :
        /\ fn' = "check_string"
        /\ args' = [obj |-> obj, allow_subclass |-> allow_subclass, name |-> name]
        /\ res' = check_string(obj, allow_subclass, name)

Call_check_sequence ==
    /\ fn = "none"
    /\ \E obj \in Objs, name \in NameArgs :
        /\ fn' = "check_sequence"
        /\ args' = [obj |-> obj, name |-> name]
        /\ res' = check_sequence(obj, name)

Call_check_iterable ==
    /\ fn = "none"
    /\ \E obj \in Objs, name \in NameArgs :
        /\ fn' = "check_iterable"
        /\ args' = [obj |-> obj, name |-> name]
        /\ res' = check_iterable(obj, name)

Call_check_iterable_items ==
    /\ fn = "none"
    /\ \E iterable_obj \in Iterables, item_type \in ItemTypes, allow_subclass \in BOOLEAN,
       name \in NameArgs :
        /\ fn' = "check_iterable_items"
        /\ args' = [iterable_obj |-> iterable_obj, item_type |-> item_type,
                    allow_subclass |-> allow_subclass, name |-> name]
        /\ res' = check_iterable_items(iterable_obj, item_type, allow_subclass, name)

Call_check_contains ==
    /\ fn = "none"
    /\ \E container \in Containers, must_contain \in Items, name \in CallerNames :
        /\ fn' = "check_contains"
        /\ args' = [container |-> container, must_contain |-> must_contain, name |-> name]
        /\ res' = check_contains(container, must_contain, name)

Call_validate_shape_value ==
    /\ fn = "none"
    /\ \E shape \in ShapeValues :
        /\ fn' = "_validate_shape_value"
        /\ args' = [shape |-> shape]
        /\ res' = _validate_shape_value(shape)

\* the calls of each group of routines, and of all of them
NextShape == Call_check_shape
SpecShape == Init /\ [][NextShape]_vars

NextSorted == Call_check_sorted
SpecSorted == Init /\ [][NextSorted]_vars

NextRange == Call_check_range \/ Call_check_greater_than \/ Call_check_less_than
SpecRange == Init /\ [][NextRange]_vars

NextInstance == Call_check_instance \/ Call_check_type
SpecInstance == Init /\ [][NextInstance]_vars

NextInteger == Call_check_integer
SpecInteger == Init /\ [][NextInteger]_vars

NextLength == Call_check_length
SpecLength == Init /\ [][NextLength]_vars

NextNdim == Call_check_ndim
SpecNdim == Init /\ [][NextNdim]_vars

NextItems == Call_check_iterable_items
SpecItems == Init /\ [][NextItems]_vars

NextShapeValue == Call_validate_shape_value
SpecShapeValue == Init /\ [][NextShapeValue]_vars

Next ==
    \/ Call_check_subdtype
    \/ Call_check_real
    \/ Call_check_sorted
    \/ Call_check_finite
    \/ Call_check_integer
    \/ Call_check_nonnegative
    \/ Call_check_greater_than
    \/ Call_check_less_than
    \/ Call_check_range
    \/ Call_check_shape
    \/ Call_check_ndim
    \/ Call_check_number
    \/ Call_check_string
    \/ Call_check_sequence
    \/ Call_check_iterable
    \/ Call_check_instance
    \/ Call_check_type
    \/ Call_check_iterable_items
    \/ Call_check_contains
    \/ Call_check_length

Spec == Init /\ [][Next]_vars

(***************************************************************************)
(* Claims                                                                  *)
(***************************************************************************)
Ok == res.kind = "ok"
Raises(kind) == res.kind = kind
MsgHas(piece) == \E i \in 1..Len(res.msg) : res.msg[i] = piece

\* a candidate shape that is well formed: an integer >= -1 or a tuple of them
GoodDim(d) == d.ty = "int" /\ d.v.k = "fin" /\ d.v.f = 0 /\ d.v.n >= -1
GoodCand(c) == GoodDim(c) \/ (c.ty = "tuple" /\ \A i \in 1..Len(c.items) : GoodDim(c.items[i]))
\* the candidates of a shape argument, each as a sequence of integers
CandsOf(shape) == IF shape.ty = "list" THEN shape.items ELSE <<shape>>
DimsOf(c) == IF c.ty = "tuple" THEN [i \in 1..Len(c.items) |-> c.items[i].v.n] ELSE <<c.v.n>>
Matches(A, C) == Len(C) = Len(A) /\ \A k \in 1..Len(A) : C[k] = A[k] \/ C[k] = -1
SomeCandMatches ==
    \E i \in 1..Len(CandsOf(args.shape)) : Matches(args.array_shape, DimsOf(CandsOf(args.shape)[i]))

\* C1: check_shape with well-formed candidate shapes succeeds iff some
\* candidate has the rank of the array's shape and agrees with it at every
\* position, up to the wildcard -1, and raises ValueError otherwise; the
\* shape (-1, 3) accepts exactly the rank-2 arrays whose second dimension is 3
C1_ShapeMatch ==
    (fn = "check_shape" /\ \A i \in 1..Len(CandsOf(args.shape)) : GoodCand(CandsOf(args.shape)[i]))
    => /\ Ok <=> SomeCandMatches
       /\ ~Ok => Raises("ValueError")
       /\ args.shape = PyTuple(<<PyInt(-1), PyInt(3)>>)
          => (Ok <=> (Len(args.array_shape) = 2 /\ args.array_shape[2] = 3))

\* a list of two well-formed candidates whose first does not match and whose
\* second matches through the wildcard
C1_Witness ==
    /\ fn = "check_shape" /\ Ok
    /\ args.shape.ty = "list" /\ Len(args.shape.items) = 2
    /\ \A i \in 1..2 : GoodCand(args.shape.items[i])
    /\ ~Matches(args.array_shape, DimsOf(args.shape.items[1]))
    /\ args.array_shape = <<3, 3>>
    /\ args.shape.items[2] = PyTuple(<<PyInt(-1), PyInt(3)>>)

\* the item of a 2-dimensional array at row i, column j (0-based)
At2(a, i, j) == a.data[i * a.shape[2] + j + 1]
\* the ordering a call of check_sorted asks of an adjacent pair
InOrder(x, y) ==
    IF args.ascending
    THEN IF args.strict THEN NumLt(x, y) ELSE NumLe(x, y)
    ELSE IF args.strict THEN NumGt(x, y) ELSE NumGe(x, y)
\* the items of a 2-dimensional array in the order ravel(order='A') visits them
FlatOrder(a) ==
    IF a.forder
    THEN [p \in 1..Len(a.data) |-> At2(a, (p - 1) % a.shape[1], (p - 1) \div a.shape[1])]
    ELSE a.data
\* every adjacent pair along the axis of the call is in order
AdjacentInOrder ==
    LET a == args.array
        n == Len(a.shape)
        ax == args.axis
    IN  IF ax.ty = "NoneType" \/ n = 1
        THEN LET d == IF n = 1 THEN a.data ELSE FlatOrder(a)
             IN  \A p \in 1..(Len(d) - 1) : InOrder(d[p], d[p + 1])
        ELSE IF ax.v.n \in {1, -1}
        THEN \A i \in 0..(a.shape[1] - 1), j \in 0..(a.shape[2] - 2) :
                InOrder(At2(a, i, j), At2(a, i, j + 1))
        ELSE \A i \in 0..(a.shape[1] - 2), j \in 0..(a.shape[2] - 1) :
                InOrder(At2(a, i, j), At2(a, i + 1, j))
\* axis is None or an int within [-ndim, ndim - 1]
ValidAxis ==
    \/ args.axis.ty = "NoneType"
    \/ /\ args.axis.ty = "int"
       /\ args.axis.v.n >= -Len(args.array.shape)
       /\ args.axis.v.n <= Len(args.array.shape) - 1

\* C2: check_sorted on an array of rank >= 1 with a valid axis succeeds iff
\* every pair of adjacent elements along the axis (along the flattened array
\* for axis None) is in the order asked for (<=, <, >= or > by ascending and
\* strict), and raises ValueError otherwise
C2_SortedIffAdjacentPairs ==
    (fn = "check_sorted" /\ Len(args.array.shape) >= 1 /\ ValidAxis)
    => /\ Ok <=> AdjacentInOrder
       /\ ~Ok => Raises("ValueError")

\* a 2-dimensional array that is sorted along its last axis and rejected
\* along axis 0
C2_Witness ==
    /\ fn = "check_sorted" /\ Raises("ValueError")
    /\ args.array.shape = <<2, 2>> /\ args.axis = PyInt(0)
    /\ args.ascending /\ ~args.strict
    /\ \A i \in 0..1 : NumLe(At2(args.array, i, 0), At2(args.array, i, 1))

\* rng is a flat sequence of exactly two numbers, i.e. has shape (2,)
RngIsPair ==
    /\ args.rng.ty = "list" /\ Len(args.rng.items) = 2
    /\ \A i \in 1..2 : IsNumberObj(args.rng.items[i])
RngLo == args.rng.items[1].v
RngHi == args.rng.items[2].v
\* every element of the array is within the range, each bound strict or not
AllInRange ==
    \A i \in 1..Len(args.array.data) :
        LET e == args.array.data[i]
        IN  /\ IF args.strict_lower THEN NumGt(e, RngLo) ELSE NumGe(e, RngLo)
            /\ IF args.strict_upper THEN NumLt(e, RngHi) ELSE NumLe(e, RngHi)

\* C3 as stated: check_range raises ValueError for every array when rng has
\* not shape (2,) or rng[0] > rng[1], and otherwise succeeds iff every
\* element is within the range, raising ValueError when one is not
C3_AsStated ==
    fn = "check_range"
    => IF ~RngIsPair \/ NumGt(RngLo, RngHi) THEN Raises("ValueError")
       ELSE (Ok <=> AllInRange) /\ (~Ok => Raises("ValueError"))

\* C3, amended: check_range raises ValueError for every array when rng has
\* not shape (2,) or rng[0] <= rng[1] does not hold (rng[0] > rng[1], or an
\* endpoint is NaN), and otherwise succeeds iff every element is within the
\* range, raising ValueError when one is not
C3_RangeValidatedFirst ==
    fn = "check_range"
    => IF ~RngIsPair \/ ~NumLe(RngLo, RngHi) THEN Raises("ValueError")
       ELSE (Ok <=> AllInRange) /\ (~Ok => Raises("ValueError"))

\* a valid range with a strict lower bound rejects an array that has an
\* element equal to that bound and nothing outside the closed range
C3_Witness ==
    /\ fn = "check_range" /\ Raises("ValueError")
    /\ RngIsPair /\ NumLe(RngLo, RngHi)
    /\ args.strict_lower /\ ~args.strict_upper
    /\ Len(args.array.data) = 2
    /\ \A i \in 1..2 : NumGe(args.array.data[i], RngLo) /\ NumLe(args.array.data[i], RngHi)

\* the candidate types of a classinfo: the type, the members of the tuple
\* or the members of the Union
CandTypes(classinfo) == {classinfo.types[i] : i \in 1..Len(classinfo.types)}
\* the classes a proper or improper subclass of which type(obj) is
SuperClasses(o) ==
    {o.ty, "object"}
    \cup (IF o.ty = "bool" THEN {"int"} ELSE {})
    \cup (IF o.ty \in {"bool", "int", "float"} THEN {"Number"} ELSE {})
    \cup (IF o.ty \in {"str", "tuple", "list"} THEN {"Sequence", "Iterable"} ELSE {})

\* C4: with a string name, check_instance succeeds iff obj is an instance
\* of a candidate type or of a subclass of one (allow_subclass) or type(obj)
\* is exactly one of the candidates (not allow_subclass); every rejection is
\* a TypeError; check_type decides as check_instance with allow_subclass False
C4_InstanceOrExactType ==
    (fn \in {"check_instance", "check_type"} /\ args.name.isstr)
    => LET subclasses == fn = "check_instance" /\ args.allow_subclass
           accepted ==
               IF subclasses
               THEN CandTypes(args.classinfo) \cap SuperClasses(args.obj) # {}
               ELSE args.obj.ty \in CandTypes(args.classinfo)
       IN  /\ Ok <=> accepted
           /\ ~Ok => Raises("TypeError")

\* check_type rejects True for the candidates (int, str): bool is a proper
\* subclass of int
C4_Witness ==
    /\ fn = "check_type" /\ Raises("TypeError")
    /\ args.obj = PyBool(TRUE)
    /\ args.classinfo = UnionOf(<<"int", "str">>)
    /\ args.name.isstr

IntegerDtypes == {"int64", "uint8"}
WholeOrInfinite(x) == x.k \in {"inf", "ninf"} \/ (x.k = "fin" /\ x.f = 0)

\* C5: check_integer with strict=True raises TypeError whenever the dtype is
\* not an integer dtype, whatever the values, and succeeds for every array
\* of integer dtype; with strict=False it succeeds iff every element equals
\* its floor and raises ValueError otherwise
C5_IntegerStrictByDtype ==
    fn = "check_integer"
    => IF args.strict
       THEN IF args.array.dtype \in IntegerDtypes THEN Ok ELSE Raises("TypeError")
       ELSE /\ Ok <=> \A i \in 1..Len(args.array.data) : WholeOrInfinite(args.array.data[i])
            /\ ~Ok => Raises("ValueError")

\* strict mode rejects a float array all of whose values are whole numbers
C5_Witness ==
    /\ fn = "check_integer" /\ args.strict /\ Raises("TypeError")
    /\ args.array.dtype = "float64" /\ Len(args.array.data) = 2
    /\ \A i \in 1..2 : args.array.data[i] = I(0)

\* a number that is finite and whole
WholeNum(o) == IsNumberObj(o) /\ o.v.k = "fin" /\ o.v.f = 0
\* exact_length is None, a whole number or a flat sequence of whole numbers;
\* min_length and max_length are None or finite numbers, in order when both
\* are given
WellFormedLengths ==
    /\ \/ args.exact_length.ty = "NoneType"
       \/ WholeNum(args.exact_length)
       \/ /\ args.exact_length.ty = "list"
          /\ \A i \in 1..Len(args.exact_length.items) : WholeNum(args.exact_length.items[i])
    /\ \A b \in {args.min_length, args.max_length} :
          b.ty = "NoneType" \/ (IsNumberObj(b) /\ b.v.k = "fin")
    /\ (args.min_length.ty # "NoneType" /\ args.max_length.ty # "NoneType")
       => NumLe(args.min_length.v, args.max_length.v)
\* the input has a length: a list, or an array of rank >= 1
HasLen(x) == IF IsNdArray(x) THEN x.shape # <<>> ELSE x.ty = "list"
\* len(sized_input)
LenOf(x) == IF IsNdArray(x) THEN x.shape[1] ELSE Len(x.items)
ExactValues ==
    IF args.exact_length.ty = "list"
    THEN {args.exact_length.items[i].v.n : i \in 1..Len(args.exact_length.items)}
    ELSE {args.exact_length.v.n}

\* C6: check_length with well-formed bounds succeeds iff the length L is one
\* of the exact_length values, L >= min_length and L <= max_length (each
\* where given, both bounds inclusive); otherwise it raises ValueError whose
\* message names the violated constraint and L, the exact length being
\* checked first, then the minimum, then the maximum
C6_LengthWithinBounds ==
    (/\ fn = "check_length" /\ ~args.must_be_1d
     /\ HasLen(args.sized_input) /\ WellFormedLengths)
    => LET L == LenOf(args.sized_input)
           exact_bad == args.exact_length.ty # "NoneType" /\ L \notin ExactValues
           min_bad == args.min_length.ty # "NoneType" /\ ~NumGe(I(L), args.min_length.v)
           max_bad == args.max_length.ty # "NoneType" /\ ~NumLe(I(L), args.max_length.v)
           Names(text, constraint) ==
               /\ Raises("ValueError") /\ MsgHas(text)
               /\ res.info.constraint = constraint /\ res.info.array_len = L
       IN  IF exact_bad THEN Names(" must have a length equal to any of: ", args.exact_length)
           ELSE IF min_bad THEN Names(" must have a minimum length of ", args.min_length)
           ELSE IF max_bad THEN Names(" must have a maximum length of ", args.max_length)
           ELSE Ok

\* a list of length 2 is rejected for a minimum of 3, the message citing both
C6_Witness ==
    /\ fn = "check_length" /\ Raises("ValueError") /\ ~args.must_be_1d
    /\ args.sized_input = PyList(<<PyInt(0), PyInt(0)>>)
    /\ args.exact_length = PyNone /\ args.min_length = PyInt(3) /\ args.max_length = PyNone
    /\ MsgHas(" must have a minimum length of ")
    /\ res.info.constraint = PyInt(3) /\ res.info.array_len = 2

\* ndim is a non-negative int or a flat sequence of non-negative ints
GoodRank(o) == o.ty = "int" /\ o.v.n >= 0
WellFormedNdim ==
    \/ GoodRank(args.ndim)
    \/ args.ndim.ty = "list" /\ \A i \in 1..Len(args.ndim.items) : GoodRank(args.ndim.items[i])
RanksOf(ndim) ==
    IF ndim.ty = "list" THEN {ndim.items[i].v.n : i \in 1..Len(ndim.items)} ELSE {ndim.v.n}

BadRank(o) == IsNumberObj(o) /\ ~GoodRank(o)
MalformedNdim ==
    \/ BadRank(args.ndim)
    \/ /\ args.ndim.ty = "list"
       /\ \E i \in 1..Len(args.ndim.items) :
             BadRank(args.ndim.items[i]) \/ args.ndim.items[i].ty = "list"

\* C8: check_ndim raises a ValueError or TypeError for every array when its
\* ndim argument is malformed (an entry that is no integer, a negative
\* entry, or an ndim of rank above 1), also when the rank of the array
\* equals an entry of ndim
C8_NdimSelfCheck ==
    (fn = "check_ndim" /\ MalformedNdim) => (Raises("ValueError") \/ Raises("TypeError"))

\* C9: every call of a check routine returns or ends in a TypeError or a
\* ValueError, never in another kind of error
C9_TwoErrorKinds == res.kind \in {"ok", "TypeError", "ValueError"}

\* the call rejected the checked value, not a supporting argument
RejectsValue ==
    /\ Raised(res)
    /\ \/ fn \in {"check_subdtype", "check_real", "check_finite", "check_integer",
                  "check_nonnegative"}
       \/ fn = "check_range" /\ RngIsPair /\ NumLe(RngLo, RngHi)
       \/ fn = "check_length" /\ HasLen(args.sized_input) /\ WellFormedLengths
       \/ fn = "check_shape"
          /\ \A i \in 1..Len(CandsOf(args.shape)) : GoodCand(CandsOf(args.shape)[i])
       \/ fn = "check_sorted" /\ ValidAxis
       \/ fn \in {"check_instance", "check_type", "check_number", "check_string",
                  "check_sequence", "check_iterable"} /\ args.name.isstr

\* C10: when a check rejects the checked value, the message of the error
\* contains the name the caller passed
C10_MessageHasName == RejectsValue => MsgHas(args.name.s[1])

\* the routines that hand the caller's name to check_instance
InstanceRoutines ==
    {"check_instance", "check_type", "check_number", "check_string", "check_sequence",
     "check_iterable", "check_iterable_items"}

\* C11: check_instance, check_type, check_number, check_string,
\* check_sequence, check_iterable and check_iterable_items raise the TypeError
\* of the name test whenever name is not a string, for every other argument,
\* also when the object satisfies the check
C11_NameMustBeString ==
    (fn \in InstanceRoutines /\ ~args.name.isstr)
    => /\ Raises("TypeError")
       /\ res.msg = <<"Name must be a string, got ", "{type(name)}", " instead.">>

\* check_iterable_items is handed a tuple of ints, which passes for the item
\* type int, with a name that is no string
C11_Witness ==
    /\ fn = "check_iterable_items" /\ ~args.name.isstr /\ Raises("TypeError")
    /\ args.iterable_obj = PyTuple(<<PyInt(1), PyInt(1)>>)
    /\ args.item_type = Type("int") /\ args.allow_subclass

\* value is a finite real scalar: a python int or float (no bool, no
\* sequence) that is neither infinite nor NaN
FiniteRealScalar(value) == value.ty \in {"int", "float"} /\ value.v.k = "fin"

\* C12: check_greater_than and check_less_than reject, for every array, a
\* value that is not 0-dimensional, not of real dtype or not finite
C12_ValueIsFiniteRealScalar ==
    (fn \in {"check_greater_than", "check_less_than"} /\ ~FiniteRealScalar(args.value))
    => Raised(res)

\* the call got past the validation of axis: it returned, or it compared
\* elements and found them out of order
AxisAccepted == Ok \/ (Raises("ValueError") /\ MsgHas(" must be sorted in "))

\* C13: for an array of rank n >= 1 and an axis other than -1 and None,
\* check_sorted raises TypeError for an axis that is no number, ValueError
\* for a number that is not integer-valued, ValueError with the out of bounds
\* message for an integer outside [-n, n-1], whatever the data, and accepts
\* every integer inside [-n, n-1]; for a 0-dimensional input it succeeds for
\* every axis, ascending and strict
C13_AxisValidated ==
    fn = "check_sorted"
    => LET n == Len(args.array.shape)
           axis == args.axis
       IN  IF n = 0 THEN Ok
           ELSE IF axis.ty = "NoneType" \/ PyEq(axis, PyInt(-1)) THEN TRUE
           ELSE IF ~IsNumberObj(axis) THEN Raises("TypeError")
           ELSE IF ~(axis.v.k = "fin" /\ axis.v.f = 0) THEN Raises("ValueError")
           ELSE IF axis.v.n < -n \/ axis.v.n > n - 1
           THEN Raises("ValueError") /\ MsgHas(" is out of bounds for ndim ")
           ELSE AxisAccepted

\* the entries of a shape value: those of a tuple, or the value itself
EntriesOf(shape) == IF shape.ty = "tuple" THEN shape.items ELSE <<shape>>
\* isinstance(d, int)
IsInt(d) == d.ty \in {"int", "bool"}

\* C14: _validate_shape_value raises TypeError for None, for a shape that is
\* neither an int nor a tuple and for a tuple with an entry that is no int;
\* it raises ValueError for an int or tuple of ints with an entry below -1;
\* every other shape is returned as a tuple of ints
C14_ShapeValueValidated ==
    fn = "_validate_shape_value"
    => LET shape == args.shape
           entries == EntriesOf(shape)
       IN  IF shape.ty = "NoneType" THEN Raises("TypeError")
           ELSE IF ~IsInt(shape) /\ shape.ty # "tuple" THEN Raises("TypeError")
           ELSE IF \E i \in 1..Len(entries) : ~IsInt(entries[i]) THEN Raises("TypeError")
           ELSE IF \E i \in 1..Len(entries) : entries[i].v.n < -1 THEN Raises("ValueError")
           ELSE Ok /\ res.val = PyTuple(entries)

\* C15: for every shape the early return of _validate_shape_value accepts,
\* the general path gives the same outcome: it returns the same tuple and
\* raises no TypeError or ValueError
C15_FastPathAgrees ==
    (fn = "_validate_shape_value" /\ InCommonShapes(args.shape))
    => res = ValidateShapeGeneral(args.shape)

\* an item passes check_instance for the item type of the call
ItemPasses(x) ==
    IF args.allow_subclass
    THEN CandTypes(args.item_type) \cap SuperClasses(x) # {}
    ELSE x.ty \in CandTypes(args.item_type)
\* the items in iteration order (a str yields itself)
ItemsInOrder == IF args.iterable_obj.ty = "str" THEN <<args.iterable_obj>> ELSE args.iterable_obj.items
FailingItems == {i \in 1..Len(ItemsInOrder) : ~ItemPasses(ItemsInOrder[i])}

\* C16: check_iterable_items with a string name raises the TypeError of the
\* iterable test for an input that is not iterable; otherwise it succeeds
\* iff every item passes check_instance (an empty iterable succeeds), and
\* when an item fails the TypeError raised is that of the first failing item
\* in iteration order, whatever passes before it
C16_FirstFailingItem ==
    (fn = "check_iterable_items" /\ args.name.isstr)
    => IF args.iterable_obj.ty \notin {"tuple", "list", "str"}
       THEN /\ Raises("TypeError") /\ ~MsgHas("All items of ")
            /\ res.info.type = args.iterable_obj.ty
       ELSE IF FailingItems = {} THEN Ok
       ELSE /\ Raises("TypeError") /\ MsgHas("All items of ")
            /\ res.info.type = ItemsInOrder[Min(FailingItems)].ty

\* a passing item comes first, then two failing items of different types:
\* the error is that of the second item
C16_Witness ==
    /\ fn = "check_iterable_items" /\ args.name.isstr /\ Raises("TypeError")
    /\ args.iterable_obj = PyTuple(<<PyInt(1), PyStr, PyFloat(I(1))>>)
    /\ args.item_type = Type("int") /\ ~args.allow_subclass
    /\ res.info.type = "str"

\* the input is one-dimensional: a flat list or an array of rank 1
IsFlat(x) ==
    IF IsNdArray(x) THEN Len(x.shape) = 1
    ELSE x.ty = "list" /\ \A i \in 1..Len(x.items) : IsNumberObj(x.items[i])
\* the call gets as far as the bounds: the input has a length, is
\* one-dimensional where that is asked for, and passes the exact_length test
\* where one is given
ReachesBounds ==
    /\ fn = "check_length" /\ HasLen(args.sized_input)
    /\ args.must_be_1d => IsFlat(args.sized_input)
    /\ \/ args.exact_length.ty = "NoneType"
       \/ /\ \/ WholeNum(args.exact_length)
             \/ /\ args.exact_length.ty = "list"
                /\ \A i \in 1..Len(args.exact_length.items) : WholeNum(args.exact_length.items[i])
          /\ LenOf(args.sized_input) \in ExactValues
Given(b) == b.ty # "NoneType"

\* C17: when check_length gets as far as its bounds, a given min_length or
\* max_length that is infinite or NaN raises the ValueError of the finite
\* test, and finite bounds with min_length > max_length raise the ValueError
\* of the sorted test, whatever the length of the input
C17_BoundsValidated ==
    ReachesBounds
    => LET lo == args.min_length
           hi == args.max_length
       IN  IF Given(lo) /\ lo.v.k # "fin"
           THEN Raises("ValueError") /\ res.msg = <<"Min length", " must have finite values.">>
           ELSE IF Given(hi) /\ hi.v.k # "fin"
           THEN Raises("ValueError") /\ res.msg = <<"Max length", " must have finite values.">>
           ELSE (Given(lo) /\ Given(hi) /\ NumGt(lo.v, hi.v))
                => /\ Raises("ValueError")
                   /\ MsgHas("Range") /\ MsgHas(" must be sorted in ")

\* a list of length 2 with min_length 3 and max_length 1 is rejected for the
\* order of the bounds, not for its length
C17_Witness ==
    /\ fn = "check_length" /\ Raises("ValueError") /\ MsgHas(" must be sorted in ")
    /\ args.sized_input = PyList(<<PyInt(0), PyInt(0)>>) /\ args.must_be_1d
    /\ args.exact_length = PyInt(2)
    /\ args.min_length = PyInt(3) /\ args.max_length = PyInt(1)

\* the nested self-calls of the call in this state
NestedCalls == SelfCalls(Zeros(args.array_shape), args.ndim, 0)

\* C18: a call of check_ndim makes at most 2 nested self-calls, makes none
\* when it returns (the self-call is on the rank-mismatch path only), and
\* ends by returning or raising
C18_NdimRecursionBounded ==
    fn = "check_ndim"
    => /\ NestedCalls <= 2
       /\ Ok => NestedCalls = 0
       /\ NestedCalls = 2 => Len(AsArray(args.ndim).shape) >= 2
       /\ res.kind \in {"ok", "ValueError", "TypeError"}

\* an ndim of rank 2 that does not hold the rank of the array: the self-call
\* on ndim mismatches too and calls once more, on [0, 1], which matches
C18_Witness ==
    /\ fn = "check_ndim" /\ Raises("ValueError")
    /\ args.ndim = PyList(<<PyList(<<PyInt(1), PyInt(2)>>)>>)
    /\ args.array_shape = <<>>
    /\ NestedCalls = 2

\* a candidate of integers >= -1: an int or a tuple of ints
WellFormedCand(c) == \A i \in 1..Len(EntriesOf(c)) : IsInt(EntriesOf(c)[i]) /\ EntriesOf(c)[i].v.n >= -1
\* a candidate is malformed: None, no int and no tuple, or a tuple with an
\* entry that is no int or is below -1
Malformed(c) == (~IsInt(c) /\ c.ty # "tuple") \/ ~WellFormedCand(c)
\* candidate i is well formed and matches the shape of the array
CandMatches(i) ==
    /\ ~Malformed(CandsOf(args.shape)[i])
    /\ Matches(args.array_shape, DimsOf(CandsOf(args.shape)[i]))
\* the candidates that are malformed or match
Decisive == {i \in 1..Len(CandsOf(args.shape)) : Malformed(CandsOf(args.shape)[i]) \/ CandMatches(i)}

\* C19: check_shape takes its candidates in list order: the first candidate
\* that is malformed or matches decides; when it matches the call returns,
\* whatever comes after it, when it is malformed the call raises the
\* TypeError or ValueError of the validation, and when there is none the
\* call raises the ValueError of a shape that is not allowed
C19_FirstDecisiveCandidate ==
    fn = "check_shape"
    => IF Decisive = {}
       THEN Raises("ValueError") /\ MsgHas(" which is not allowed. ")
       ELSE IF CandMatches(Min(Decisive)) THEN Ok
       ELSE Raises("TypeError") \/ Raises("ValueError")

====
